---- MODULE Spec2Model ----
(***************************************************************************)
(* Model of azuread_aws/commands/app_role.py: the four app-role commands   *)
(* (ls, info, rm, new) run against the identity provider's application     *)
(* object, and the two in-memory lookups over its role collection.         *)
(*                                                                         *)
(* A Python string is a sequence of characters (one-character TLA+         *)
(* strings); a literal chunk of an f-string that is never split is kept as *)
(* one element.  None is the value None below.                             *)
(***************************************************************************)
EXTENDS Integers, Sequences, FiniteSets, TLC

VARIABLES
    provider,     \* the application's appRoles as the identity provider holds them
    opts,         \* opts[i]: the parsed command line of invocation i
    pc,           \* pc[i]: the next network call of invocation i, or done / error / idle
    application,  \* application[i]: the invocation's local copy of appRoles
    app_role,     \* app_role[i]: the role the command found or built, or None
    out,          \* out[i]: the records the command logged at info level
    err,          \* err[i]: the exception that ended the command, or NoError
    calls,        \* calls[i]: the network calls the invocation issued, in order
    uuid,         \* number of uuid4 values generated so far
    overlapped,   \* a write of one invocation landed between another's fetch and its last write
    lastWriter,   \* the invocation whose write the provider accepted last, 0 for none
    app_roles,    \* lookup harness: the role list given to find_app_roles_by_aws_name
    aws_name,     \* lookup harness: the AWS role name searched for
    found         \* lookup harness: [ran, found, raised], the outcome of the call

cmdVars == <<provider, opts, pc, application, app_role, out, err, calls, uuid, overlapped,
             lastWriter>>
lookupVars == <<app_roles, aws_name, found>>
vars == <<provider, opts, pc, application, app_role, out, err, calls, uuid, overlapped, lastWriter,
          app_roles, aws_name, found>>

\* Bounds of the model.
MaxRoles == 2      \* roles in the provider's collection before a command runs
MaxDescLen == 3    \* characters in a description given to the lookup harness

\* None, as a value no string equals
None == <<"<None>">>
NoError == "NoError"
Invocations == {1, 2}

----------------------------------------------------------------------------
\* Strings

At == "@"
msiam_access == <<"msiam_access">>

\* '@' in s
HasAt(s) == \E k \in 1..Len(s) : s[k] = At

FirstAt(s) == CHOOSE k \in 1..Len(s) : s[k] = At /\ \A j \in 1..(k-1) : s[j] # At

\* s.split('@'): the list of the pieces between the separators
RECURSIVE split(_)
split(s) ==
    IF ~HasAt(s) THEN <<s>>
    ELSE <<SubSeq(s, 1, FirstAt(s) - 1)>> \o split(SubSeq(s, FirstAt(s) + 1, Len(s)))

\* a, b = parts: unpacking raises ValueError unless there are exactly two
Unpacks(parts) == Len(parts) = 2

\* Python truthiness of an optional string
Falsy(x) == x = None \/ x = <<>>

----------------------------------------------------------------------------
\* Roles

SeqRemoveAt(s, k) == SubSeq(s, 1, k - 1) \o SubSeq(s, k + 1, Len(s))

\* A lookup that falls out of its loop holding the last role it looked at
find_app_role_by_name_LastSeen(app_role_name, roles) ==
    IF \E k \in 1..Len(roles) : roles[k].displayName = app_role_name
    THEN CHOOSE k \in 1..Len(roles) :
            /\ roles[k].displayName = app_role_name
            /\ \A j \in 1..(k-1) : roles[j].displayName # app_role_name
    ELSE Len(roles)

\* find_app_role_by_name: the position of the first role with that displayName
\* (the reference the code returns), 0 for None
find_app_role_by_name(app_role_name, roles) ==
    IF \E k \in 1..Len(roles) : roles[k].displayName = app_role_name
    THEN CHOOSE k \in 1..Len(roles) :
            /\ roles[k].displayName = app_role_name
            /\ \A j \in 1..(k-1) : roles[j].displayName # app_role_name
    ELSE 0

\* A delete that forgets to disable the role
SetDisabled_Skipped(roles, k) == roles

\* app_role['isEnabled'] = False, on the dict that is the k-th element of the list
SetDisabled(roles, k) == [roles EXCEPT ![k].isEnabled = FALSE]

\* application['appRoles'].remove(app_role): drops the first element equal to it
ListRemove(roles, r) ==
    IF \E k \in 1..Len(roles) : roles[k] = r
    THEN SeqRemoveAt(roles, CHOOSE k \in 1..Len(roles) :
                                roles[k] = r /\ \A j \in 1..(k-1) : roles[j] # r)
    ELSE roles

iam_role_arn(o) == <<"arn:aws:iam::">> \o o.account_id \o <<":role/aad/">> \o o.aws_role_name
saml_provider_arn(o) == <<"arn:aws:iam::">> \o o.account_id \o <<":saml-provider/AAD">>

\* options.app_role_name after lines 53-54 (the assignment to the options object
\* is read only at line 59, so opts keeps the command line as it was given)
AppRoleName(o) ==
    IF Falsy(o.app_role_name) THEN o.aws_role_name \o <<"/">> \o o.account_id
    ELSE o.app_role_name

\* A role created disabled
NewAppRole_Disabled(o, n) ==
    [ allowedMemberTypes |-> <<"User">>,
      description |-> o.aws_role_name \o <<At>> \o o.account_id,
      displayName |-> AppRoleName(o),
      id |-> <<"uuid4", n>>,
      isEnabled |-> FALSE,
      origin |-> "Application",
      value |-> iam_role_arn(o) \o <<",">> \o saml_provider_arn(o) ]

\* the dict built by new_app_role; n numbers the uuid4 call
NewAppRole(o, n) ==
    [ allowedMemberTypes |-> <<"User">>,
      description |-> o.aws_role_name \o <<At>> \o o.account_id,
      displayName |-> AppRoleName(o),
      id |-> <<"uuid4", n>>,
      isEnabled |-> TRUE,
      origin |-> "Application",
      value |-> iam_role_arn(o) \o <<",">> \o saml_provider_arn(o) ]

\* The loop of list_app_roles over roles[k..]: the records logged, and whether
\* the unpacking of a split raised ValueError (which ends the loop).
RECURSIVE ListLoop(_, _)
ListLoop(roles, k) ==
    IF k > Len(roles) THEN [records |-> <<>>, raised |-> FALSE]
    ELSE IF roles[k].displayName = msiam_access THEN ListLoop(roles, k + 1)
    ELSE IF ~HasAt(roles[k].description) THEN ListLoop(roles, k + 1)
    ELSE IF ~Unpacks(split(roles[k].description)) THEN [records |-> <<>>, raised |-> TRUE]
    ELSE LET parts == split(roles[k].description)
             rest == ListLoop(roles, k + 1)
         IN  [records |-> << [id |-> roles[k].id, displayName |-> roles[k].displayName,
                              aws_role_name |-> parts[1], aws_account_id |-> parts[2]] >>
                          \o rest.records,
              raised |-> rest.raised]

\* The loop of find_app_roles_by_aws_name over roles[k..]
RECURSIVE FindLoop(_, _, _)
FindLoop(name, roles, k) ==
    IF k > Len(roles) THEN [found |-> <<>>, raised |-> FALSE]
    ELSE IF ~HasAt(roles[k].description) THEN FindLoop(name, roles, k + 1)
    ELSE IF ~Unpacks(split(roles[k].description)) THEN [found |-> <<>>, raised |-> TRUE]
    ELSE LET rest == FindLoop(name, roles, k + 1)
         IN  IF split(roles[k].description)[1] = name
             THEN [found |-> <<roles[k]>> \o rest.found, raised |-> rest.raised]
             ELSE rest

----------------------------------------------------------------------------
\* The identity provider and the cloud provider

\* graph_api.get_application: the full application object, as the provider holds it
get_application(prov) == prov

\* graph_api.patch_application: the provider's collection after a successful
\* write of `sent` (the whole resource is replaced, nothing is merged)
patch_application(prov, sent) == sent

Call(op, ok, roles) == [op |-> op, ok |-> ok, roles |-> roles]

\* The IAM roles an account can hold: role names are unique within an account.
IamNames == {<<"a">>, <<"b">>}
IamPaths == {<<"/aad", "/">>, <<"/aad", "x/">>, <<"/">>}
IamRole(account, path, name) ==
    [name |-> name, path |-> path,
     arn |-> <<"arn:aws:iam::">> \o account \o <<":role">> \o path \o name]
IamStates(account) ==
    {<<>>}
    \cup {<<IamRole(account, p, n)>> : p \in IamPaths, n \in IamNames}
    \cup {<<IamRole(account, p, n), IamRole(account, q, m)>> :
              p \in IamPaths, q \in IamPaths, <<n, m>> \in {<<<<"a">>, <<"b">>>>, <<<<"b">>, <<"a">>>>}}

HasPrefix(s, pre) == Len(s) >= Len(pre) /\ SubSeq(s, 1, Len(pre)) = pre

\* iam_resource.roles.filter(PathPrefix=prefix)
RECURSIVE roles_filter(_, _)
roles_filter(iam, prefix) ==
    IF iam = <<>> THEN <<>>
    ELSE (IF HasPrefix(Head(iam).path, prefix) THEN <<Head(iam)>> ELSE <<>>)
         \o roles_filter(Tail(iam), prefix)

\* A report that takes the first listed role whatever its name
RoleArn_IgnoresName(listing, name) ==
    IF listing # <<>> THEN listing[1].arn ELSE <<"Not Found">>

\* lines 102-106: the arn of the first listed role with that name, else 'Not Found'
RoleArn(listing, name) ==
    IF \E k \in 1..Len(listing) : listing[k].name = name
    THEN listing[CHOOSE k \in 1..Len(listing) :
                    listing[k].name = name /\ \A j \in 1..(k-1) : listing[j].name # name].arn
    ELSE <<"Not Found">>

----------------------------------------------------------------------------
\* The commands, one action per network call with the local code that follows it

\* A call that raised: `sent` is the collection the request carried
Failed(i, op, sent, e) ==
    /\ calls' = [calls EXCEPT ![i] = Append(@, Call(op, FALSE, sent))]
    /\ pc' = [pc EXCEPT ![i] = "error"]
    /\ err' = [err EXCEPT ![i] = e]

\* token = auth.get_bearer_token('https://graph.microsoft.com')
get_bearer_token(i) ==
    /\ pc[i] = "auth"
    /\ \/ /\ calls' = [calls EXCEPT ![i] = Append(@, Call("auth", TRUE, <<>>))]
          /\ pc' = [pc EXCEPT ![i] = "get"]
          /\ err' = err
       \/ Failed(i, "auth", <<>>, "AuthenticationFailure")
    /\ UNCHANGED <<provider, opts, application, app_role, out, uuid, overlapped, lastWriter, lookupVars>>

list_app_roles(i) ==
    /\ pc[i] = "get" /\ opts[i].cmd = "ls"
    /\ \/ LET fetched == get_application(provider)
              scan == ListLoop(fetched, 1)
          IN  /\ calls' = [calls EXCEPT ![i] = Append(@, Call("get", TRUE, fetched))]
              /\ application' = [application EXCEPT ![i] = fetched]
              /\ out' = [out EXCEPT ![i] = scan.records]
              /\ pc' = [pc EXCEPT ![i] = IF scan.raised THEN "error" ELSE "done"]
              /\ err' = [err EXCEPT ![i] = IF scan.raised THEN "ValueError" ELSE NoError]
       \/ /\ Failed(i, "get", <<>>, "ProviderRequestFailure")
          /\ UNCHANGED <<application, out>>
    /\ UNCHANGED <<provider, opts, app_role, uuid, overlapped, lastWriter, lookupVars>>

\* lines 35-40: fetch, look the role up, mark it disabled in the local copy
delete_app_role_get(i) ==
    /\ pc[i] = "get" /\ opts[i].cmd = "rm"
    /\ \/ LET fetched == get_application(provider)
              k == find_app_role_by_name(opts[i].role_name, fetched)
          IN  /\ calls' = [calls EXCEPT ![i] = Append(@, Call("get", TRUE, fetched))]
              /\ IF k = 0
                 THEN /\ application' = [application EXCEPT ![i] = fetched]
                      /\ pc' = [pc EXCEPT ![i] = "error"]
                      /\ err' = [err EXCEPT ![i] = "RoleNotFound"]
                      /\ app_role' = app_role
                 ELSE /\ application' = [application EXCEPT ![i] = SetDisabled(fetched, k)]
                      /\ app_role' = [app_role EXCEPT ![i] = SetDisabled(fetched, k)[k]]
                      /\ pc' = [pc EXCEPT ![i] = "patch"]
                      /\ err' = err
       \/ /\ Failed(i, "get", <<>>, "ProviderRequestFailure")
          /\ UNCHANGED <<application, app_role>>
    /\ UNCHANGED <<provider, opts, out, uuid, overlapped, lastWriter, lookupVars>>

\* Whether a write of invocation i lands while another invocation has fetched
\* and still has a write to issue
Overlaps(i) == \E j \in Invocations \ {i} : pc[j] \in {"patch", "patch2"}

\* A first write whose failure is swallowed: the command goes on to the second
delete_app_role_patch_Swallowed(i) ==
    /\ pc[i] = "patch" /\ opts[i].cmd = "rm"
    /\ \/ /\ calls' = [calls EXCEPT ![i] = Append(@, Call("patch", TRUE, application[i]))]
          /\ provider' = patch_application(provider, application[i])
          /\ overlapped' = (overlapped \/ Overlaps(i))
          /\ lastWriter' = i
       \/ /\ calls' = [calls EXCEPT ![i] = Append(@, Call("patch", FALSE, application[i]))]
          /\ UNCHANGED <<provider, overlapped, lastWriter>>
    /\ application' = [application EXCEPT ![i] = ListRemove(@, app_role[i])]
    /\ pc' = [pc EXCEPT ![i] = "patch2"]
    /\ UNCHANGED <<opts, app_role, out, err, uuid, lookupVars>>

\* lines 41-43: the first write, then the role is removed from the local copy
delete_app_role_patch(i) ==
    /\ pc[i] = "patch" /\ opts[i].cmd = "rm"
    /\ \/ /\ calls' = [calls EXCEPT ![i] = Append(@, Call("patch", TRUE, application[i]))]
          /\ provider' = patch_application(provider, application[i])
          /\ application' = [application EXCEPT ![i] = ListRemove(@, app_role[i])]
          /\ pc' = [pc EXCEPT ![i] = "patch2"]
          /\ overlapped' = (overlapped \/ Overlaps(i))
          /\ lastWriter' = i
          /\ err' = err
       \/ /\ Failed(i, "patch", application[i], "ProviderRequestFailure")
          /\ UNCHANGED <<provider, application, overlapped, lastWriter>>
    /\ UNCHANGED <<opts, app_role, out, uuid, lookupVars>>

\* A second write that is tried once more when it fails
delete_app_role_patch2_Retried(i) ==
    /\ pc[i] = "patch2" /\ opts[i].cmd = "rm"
    /\ \/ /\ calls' = [calls EXCEPT ![i] = Append(@, Call("patch", TRUE, application[i]))]
          /\ provider' = patch_application(provider, application[i])
          /\ out' = [out EXCEPT ![i] = <<[deleted |-> app_role[i].id,
                                         displayName |-> app_role[i].displayName]>>]
          /\ pc' = [pc EXCEPT ![i] = "done"]
          /\ overlapped' = (overlapped \/ Overlaps(i))
          /\ lastWriter' = i
          /\ err' = err
       \/ /\ calls' = [calls EXCEPT ![i] = Append(@, Call("patch", FALSE, application[i]))]
          /\ IF Len(SelectSeq(calls[i], LAMBDA c : c.op = "patch")) < 2
             THEN pc' = pc /\ err' = err
             ELSE /\ pc' = [pc EXCEPT ![i] = "error"]
                  /\ err' = [err EXCEPT ![i] = "ProviderRequestFailure"]
          /\ UNCHANGED <<provider, out, overlapped, lastWriter>>
    /\ UNCHANGED <<opts, application, app_role, uuid, lookupVars>>

\* lines 44-45: the second write
delete_app_role_patch2(i) ==
    /\ pc[i] = "patch2" /\ opts[i].cmd = "rm"
    /\ \/ /\ calls' = [calls EXCEPT ![i] = Append(@, Call("patch", TRUE, application[i]))]
          /\ provider' = patch_application(provider, application[i])
          /\ out' = [out EXCEPT ![i] = <<[deleted |-> app_role[i].id,
                                         displayName |-> app_role[i].displayName]>>]
          /\ pc' = [pc EXCEPT ![i] = "done"]
          /\ overlapped' = (overlapped \/ Overlaps(i))
          /\ lastWriter' = i
          /\ err' = err
       \/ /\ Failed(i, "patch", application[i], "ProviderRequestFailure")
          /\ UNCHANGED <<provider, out, overlapped, lastWriter>>
    /\ UNCHANGED <<opts, application, app_role, uuid, lookupVars>>

\* lines 51-65: fetch, build the role, append it to the local copy
new_app_role_get(i) ==
    /\ pc[i] = "get" /\ opts[i].cmd = "new"
    /\ \/ LET fetched == get_application(provider)
              role == NewAppRole(opts[i], uuid + 1)
          IN  /\ calls' = [calls EXCEPT ![i] = Append(@, Call("get", TRUE, fetched))]
              /\ uuid' = uuid + 1
              /\ app_role' = [app_role EXCEPT ![i] = role]
              /\ application' = [application EXCEPT ![i] = Append(fetched, role)]
              /\ pc' = [pc EXCEPT ![i] = "patch"]
              /\ err' = err
       \/ /\ Failed(i, "get", <<>>, "ProviderRequestFailure")
          /\ UNCHANGED <<uuid, app_role, application>>
    /\ UNCHANGED <<provider, opts, out, overlapped, lastWriter, lookupVars>>

\* A write that sends the provider's current collection with the new role added
new_app_role_patch_Merged(i) ==
    /\ pc[i] = "patch" /\ opts[i].cmd = "new"
    /\ \/ /\ calls' = [calls EXCEPT ![i] = Append(@, Call("patch", TRUE, Append(provider, app_role[i])))]
          /\ provider' = patch_application(provider, Append(provider, app_role[i]))
          /\ out' = [out EXCEPT ![i] = <<[created |-> app_role[i].id,
                                         aws_role_name |-> opts[i].aws_role_name,
                                         account_id |-> opts[i].account_id]>>]
          /\ pc' = [pc EXCEPT ![i] = "done"]
          /\ overlapped' = (overlapped \/ Overlaps(i))
          /\ lastWriter' = i
          /\ err' = err
       \/ /\ Failed(i, "patch", application[i], "ProviderRequestFailure")
          /\ UNCHANGED <<provider, out, overlapped, lastWriter>>
    /\ UNCHANGED <<opts, application, app_role, uuid, lookupVars>>

\* lines 66-68: the write
new_app_role_patch(i) ==
    /\ pc[i] = "patch" /\ opts[i].cmd = "new"
    /\ \/ /\ calls' = [calls EXCEPT ![i] = Append(@, Call("patch", TRUE, application[i]))]
          /\ provider' = patch_application(provider, application[i])
          /\ out' = [out EXCEPT ![i] = <<[created |-> app_role[i].id,
                                         aws_role_name |-> opts[i].aws_role_name,
                                         account_id |-> opts[i].account_id]>>]
          /\ pc' = [pc EXCEPT ![i] = "done"]
          /\ overlapped' = (overlapped \/ Overlaps(i))
          /\ lastWriter' = i
          /\ err' = err
       \/ /\ Failed(i, "patch", application[i], "ProviderRequestFailure")
          /\ UNCHANGED <<provider, out, overlapped, lastWriter>>
    /\ UNCHANGED <<opts, application, app_role, uuid, lookupVars>>

\* lines 95-100: fetch, look the role up, split its description
show_app_role_info_get(i) ==
    /\ pc[i] = "get" /\ opts[i].cmd = "info"
    /\ \/ LET fetched == get_application(provider)
              k == find_app_role_by_name(opts[i].role_name, fetched)
          IN  /\ calls' = [calls EXCEPT ![i] = Append(@, Call("get", TRUE, fetched))]
              /\ application' = [application EXCEPT ![i] = fetched]
              /\ IF k = 0
                 THEN /\ pc' = [pc EXCEPT ![i] = "error"]
                      /\ err' = [err EXCEPT ![i] = "RoleNotFound"]
                      /\ app_role' = app_role
                 ELSE /\ app_role' = [app_role EXCEPT ![i] = fetched[k]]
                      /\ IF Unpacks(split(fetched[k].description))
                         THEN pc' = [pc EXCEPT ![i] = "iam"] /\ err' = err
                         ELSE /\ pc' = [pc EXCEPT ![i] = "error"]
                              /\ err' = [err EXCEPT ![i] = "ValueError"]
       \/ /\ Failed(i, "get", <<>>, "ProviderRequestFailure")
          /\ UNCHANGED <<application, app_role>>
    /\ UNCHANGED <<provider, opts, out, uuid, overlapped, lastWriter, lookupVars>>

\* lines 101-108: list the account's IAM roles under /aad and report
show_app_role_info_iam(i) ==
    /\ pc[i] = "iam" /\ opts[i].cmd = "info"
    /\ LET parts == split(app_role[i].description)
           aws_role_name == parts[1]
           aws_account_id == parts[2]
       IN  \/ \E iam \in IamStates(aws_account_id) :
                 /\ calls' = [calls EXCEPT ![i] = Append(@, Call("iam", TRUE, iam))]
                 /\ out' = [out EXCEPT ![i] =
                        <<[id |-> app_role[i].id, name |-> opts[i].role_name,
                           aws_account_id |-> aws_account_id,
                           aws_role_name |-> aws_role_name,
                           role_arn |-> RoleArn(roles_filter(iam, <<"/aad">>), aws_role_name)]>>]
                 /\ pc' = [pc EXCEPT ![i] = "done"]
                 /\ err' = err
           \/ /\ Failed(i, "iam", <<>>, "ProviderRequestFailure")
              /\ out' = out
    /\ UNCHANGED <<provider, opts, application, app_role, uuid, overlapped, lastWriter, lookupVars>>

Step(i) ==
    \/ get_bearer_token(i)
    \/ list_app_roles(i)
    \/ delete_app_role_get(i)
    \/ delete_app_role_patch(i)
    \/ delete_app_role_patch2(i)
    \/ new_app_role_get(i)
    \/ new_app_role_patch(i)
    \/ show_app_role_info_get(i)
    \/ show_app_role_info_iam(i)

----------------------------------------------------------------------------
\* Initial states

\* The k-th role of a collection the provider already holds
ExistingRole(k, p) ==
    [ allowedMemberTypes |-> <<"User">>,
      description |-> p.description,
      displayName |-> p.displayName,
      id |-> <<"role", k>>,
      isEnabled |-> p.isEnabled,
      origin |-> "Application",
      value |-> <<"value">> ]

RolePool(names, descriptions) ==
    [displayName : names, description : descriptions, isEnabled : BOOLEAN]

\* The strings of at most n characters over an alphabet
Strings(alphabet, n) == UNION { [1..k -> alphabet] : k \in 0..n }

\* Collections of at most n roles drawn from the pool, ids distinct
RoleLists(pool, n) ==
    UNION { { [k \in 1..len |-> ExistingRole(k, f[k])] : f \in [1..len -> pool] } : len \in 0..n }

DisplayNames == {msiam_access, <<"a", "/", "1">>, <<"x">>}
Descriptions == {<<"a", At, "1">>, <<"b">>, <<"a", At, "1", At, "1">>}

NoOpts == [cmd |-> "none", role_name |-> None, aws_role_name |-> None,
           account_id |-> None, app_role_name |-> None]
LsOpts == {[NoOpts EXCEPT !.cmd = "ls"]}
InfoOpts(names) == {[NoOpts EXCEPT !.cmd = "info", !.role_name = n] : n \in names}
RmOpts(names) == {[NoOpts EXCEPT !.cmd = "rm", !.role_name = n] : n \in names}
NewOpts(names) ==
    {[NoOpts EXCEPT !.cmd = "new", !.aws_role_name = <<"a">>, !.account_id = <<"1">>,
                    !.app_role_name = n] : n \in names}

InitLocal ==
    /\ pc = [i \in Invocations |-> IF opts[i].cmd = "none" THEN "idle" ELSE "auth"]
    /\ application = [i \in Invocations |-> <<>>]
    /\ app_role = [i \in Invocations |-> None]
    /\ out = [i \in Invocations |-> <<>>]
    /\ err = [i \in Invocations |-> NoError]
    /\ calls = [i \in Invocations |-> <<>>]
    /\ uuid = 0
    /\ overlapped = FALSE
    /\ lastWriter = 0

NotRun == [ran |-> FALSE, found |-> <<>>, raised |-> FALSE]
LookupIdle == app_roles = <<>> /\ aws_name = <<>> /\ found = NotRun

\* One command against any small collection
Init ==
    /\ provider \in RoleLists(RolePool(DisplayNames, Descriptions), MaxRoles)
    /\ opts \in [Invocations -> LsOpts \cup InfoOpts(DisplayNames) \cup RmOpts(DisplayNames)
                                \cup NewOpts({None, <<>>, <<"x">>}) \cup {NoOpts}]
    /\ opts[1].cmd # "none" /\ opts[2].cmd = "none"
    /\ InitLocal
    /\ LookupIdle

Next == \E i \in Invocations : Step(i)

Spec == Init /\ [][Next]_vars

\* Two writing commands (new, rm) whose network calls interleave freely
InitConc ==
    /\ provider \in RoleLists(RolePool({<<"a", "/", "1">>, <<"x">>}, {<<"a", At, "1">>}), MaxRoles)
    /\ opts \in [Invocations -> RmOpts({<<"a", "/", "1">>, <<"x">>}) \cup NewOpts({None})]
    /\ InitLocal
    /\ LookupIdle

NextConc ==
    \E i \in Invocations :
        \/ get_bearer_token(i)
        \/ delete_app_role_get(i)
        \/ delete_app_role_patch(i)
        \/ delete_app_role_patch2(i)
        \/ new_app_role_get(i)
        \/ new_app_role_patch(i)

SpecConc == InitConc /\ [][NextConc]_vars

\* find_app_roles_by_aws_name applied to any short list of roles
find_app_roles_by_aws_name ==
    /\ ~found.ran
    /\ found' = [ran |-> TRUE,
                 found |-> FindLoop(aws_name, app_roles, 1).found,
                 raised |-> FindLoop(aws_name, app_roles, 1).raised]
    /\ UNCHANGED <<app_roles, aws_name, cmdVars>>

InitLookup ==
    /\ app_roles \in RoleLists(RolePool({msiam_access, <<"x">>}, Strings({"a", At}, MaxDescLen)),
                               MaxRoles)
    /\ aws_name \in {<<"a">>, <<>>}
    /\ found = NotRun
    /\ provider = <<>>
    /\ opts = [i \in Invocations |-> NoOpts]
    /\ InitLocal

NextLookup == find_app_roles_by_aws_name

SpecLookup == InitLookup /\ [][NextLookup]_vars

----------------------------------------------------------------------------
\* What the call log of an invocation says

Writes(i) == SelectSeq(calls[i], LAMBDA c : c.op = "patch")
CountOp(i, op) == Len(SelectSeq(calls[i], LAMBDA c : c.op = op))
GotApplication(i) == Len(calls[i]) >= 2 /\ calls[i][2].op = "get" /\ calls[i][2].ok
Fetched(i) == calls[i][2].roles
Ids(roles) == {roles[k].id : k \in 1..Len(roles)}
Names(roles) == {roles[k].displayName : k \in 1..Len(roles)}

\* The position in the fetched collection of the first role named on the command line
TargetPos(i) ==
    CHOOSE k \in 1..Len(Fetched(i)) :
        /\ Fetched(i)[k].displayName = opts[i].role_name
        /\ \A j \in 1..(k-1) : Fetched(i)[j].displayName # opts[i].role_name
Target(i) == Fetched(i)[TargetPos(i)]
HasTarget(i) == GotApplication(i) /\ opts[i].role_name \in Names(Fetched(i))

\* roles with the k-th one replaced by r / left out, written without the model's operators
WithAt(roles, k, r) == [j \in 1..Len(roles) |-> IF j = k THEN r ELSE roles[j]]
Without(roles, k) == [j \in 1..(Len(roles) - 1) |-> IF j < k THEN roles[j] ELSE roles[j + 1]]

----------------------------------------------------------------------------
\* C1: a delete of an enabled role whose provider calls all succeed issues
\* exactly two writes: the first sends the fetched collection with that role
\* still present and isEnabled = FALSE, the second sends it without that role;
\* and in no state has a write without the role been issued unless an earlier
\* write that carried it disabled succeeded.
C1_DeleteTwoWrites ==
    \A i \in Invocations :
        (opts[i].cmd = "rm" /\ HasTarget(i) /\ Target(i).isEnabled) =>
            /\ pc[i] = "done" =>
                /\ Len(Writes(i)) = 2
                /\ \E k \in 1..Len(Writes(i)[1].roles) :
                      /\ Writes(i)[1].roles[k].id = Target(i).id
                      /\ Writes(i)[1].roles[k].isEnabled = FALSE
                /\ Target(i).id \notin Ids(Writes(i)[2].roles)
            /\ \A n \in 1..Len(Writes(i)) :
                  Target(i).id \notin Ids(Writes(i)[n].roles) =>
                      \E m \in 1..(n-1) :
                          /\ Writes(i)[m].ok
                          /\ \E k \in 1..Len(Writes(i)[m].roles) :
                                /\ Writes(i)[m].roles[k].id = Target(i).id
                                /\ ~Writes(i)[m].roles[k].isEnabled

\* a completed delete of an enabled role that was not alone in the collection
C1_Witness ==
    \E i \in Invocations :
        /\ opts[i].cmd = "rm" /\ pc[i] = "done" /\ HasTarget(i)
        /\ Target(i).isEnabled /\ Len(Fetched(i)) = 2 /\ Len(Writes(i)) = 2

\* C2: in a delete, when the first write succeeds and the second fails the
\* command ends in error having issued no further call, and the provider holds
\* the fetched collection with the target present and disabled and every other
\* role as fetched; when the first write fails no second write is issued and
\* the provider's collection is the fetched one.
C2_DeletePartialFailure ==
    \A i \in Invocations :
        (opts[i].cmd = "rm" /\ Len(Writes(i)) >= 1) =>
            /\ (Len(Writes(i)) = 2 /\ Writes(i)[1].ok /\ ~Writes(i)[2].ok) =>
                  /\ pc[i] = "error" /\ err[i] = "ProviderRequestFailure"
                  /\ Len(calls[i]) = 4
                  /\ provider = WithAt(Fetched(i), TargetPos(i),
                                       [Target(i) EXCEPT !.isEnabled = FALSE])
            /\ ~Writes(i)[1].ok =>
                  /\ pc[i] = "error" /\ err[i] = "ProviderRequestFailure"
                  /\ Len(Writes(i)) = 1 /\ Len(calls[i]) = 3
                  /\ provider = Fetched(i)

\* the second write of a delete of an enabled role, one of two, has failed
C2_Witness ==
    \E i \in Invocations :
        /\ opts[i].cmd = "rm" /\ Len(Writes(i)) = 2
        /\ Writes(i)[1].ok /\ ~Writes(i)[2].ok
        /\ Target(i).isEnabled /\ Len(Fetched(i)) = 2

\* C3: rm and info given a name that is the displayName of no fetched role
\* (the collection may be empty) end with the command's own role-not-found
\* error, the lookup having returned None; no write is issued and the
\* provider's collection is unchanged.
C3_RoleNotFound ==
    \A i \in Invocations :
        (opts[i].cmd \in {"rm", "info"} /\ GotApplication(i)
            /\ opts[i].role_name \notin Names(Fetched(i))) =>
            /\ find_app_role_by_name(opts[i].role_name, Fetched(i)) = 0
            /\ pc[i] = "error" /\ err[i] = "RoleNotFound"
            /\ Len(calls[i]) = 2
            /\ provider = Fetched(i)

\* rm has fetched a collection of two roles, neither with the name it was given
C3_Witness ==
    \E i \in Invocations :
        /\ opts[i].cmd = "rm" /\ GotApplication(i) /\ Len(Fetched(i)) = 2
        /\ opts[i].role_name \notin Names(Fetched(i))
        /\ err[i] = "RoleNotFound"

\* C4: a command that has run to completion issued one authentication, then
\* one fetch, then its writes: none for ls and info, one for new, two for rm;
\* in every state ls and info have issued no write, no command has issued more
\* than two, and the authentication and the fetch are the first two calls.
WritesOf(cmd) == IF cmd = "new" THEN 1 ELSE IF cmd = "rm" THEN 2 ELSE 0

C4_CallCounts ==
    \A i \in Invocations :
        opts[i].cmd # "none" =>
            /\ CountOp(i, "auth") <= 1 /\ CountOp(i, "get") <= 1
            /\ Len(Writes(i)) <= 2
            /\ opts[i].cmd \in {"ls", "info"} => Len(Writes(i)) = 0
            /\ \A n \in 1..Len(calls[i]) :
                  /\ calls[i][n].op = "auth" <=> n = 1
                  /\ calls[i][n].op = "get" <=> n = 2
            /\ pc[i] = "done" =>
                  /\ CountOp(i, "auth") = 1 /\ CountOp(i, "get") = 1
                  /\ Len(Writes(i)) = WritesOf(opts[i].cmd)
                  /\ \A n \in 1..Len(calls[i]) : calls[i][n].ok

\* a delete has completed with its two writes
C4_Witness ==
    \E i \in Invocations :
        opts[i].cmd = "rm" /\ pc[i] = "done" /\ Len(Writes(i)) = 2

----------------------------------------------------------------------------
\* Descriptions, as the claims speak of them

AtCount(d) == Cardinality({k \in 1..Len(d) : d[k] = At})
\* the text before / after the first '@' of a description that has one
BeforeAt(d) == SubSeq(d, 1, (CHOOSE k \in 1..Len(d) : d[k] = At /\ \A j \in 1..(k-1) : d[j] # At) - 1)
AfterAt(d) == SubSeq(d, (CHOOSE k \in 1..Len(d) : d[k] = At /\ \A j \in 1..(k-1) : d[j] # At) + 1, Len(d))

ListRecord(r) ==
    [id |-> r.id, displayName |-> r.displayName,
     aws_role_name |-> BeforeAt(r.description), aws_account_id |-> AfterAt(r.description)]

\* one record, in collection order, for each role that is not msiam_access and
\* whose description has the delimiter
ExpectedRecords(roles) ==
    LET kept == SelectSeq(roles, LAMBDA r : r.displayName # msiam_access /\ AtCount(r.description) >= 1)
    IN  [k \in 1..Len(kept) |-> ListRecord(kept[k])]

\* C5: for every fetched collection ls logs, in collection order, exactly one
\* record for each role that is not msiam_access and has a well-formed
\* description, nothing for the others, and completes without a fatal error.
C5_ListEmitsEveryWellFormedRole ==
    \A i \in Invocations :
        (opts[i].cmd = "ls" /\ GotApplication(i)) =>
            /\ pc[i] = "done" /\ err[i] = NoError
            /\ out[i] = ExpectedRecords(Fetched(i))

\* The same where no listed role's description has a second '@'
ListEmitsWhenAtMostOneAt ==
    \A i \in Invocations :
        (opts[i].cmd = "ls" /\ GotApplication(i)
            /\ \A k \in 1..Len(Fetched(i)) :
                  Fetched(i)[k].displayName = msiam_access \/ AtCount(Fetched(i)[k].description) <= 1) =>
            /\ pc[i] = "done" /\ err[i] = NoError
            /\ out[i] = ExpectedRecords(Fetched(i))

\* C6: new sends exactly one write: the fetched collection, every role
\* unchanged and in order, followed by one role with description "r@a", value
\* "arn:aws:iam::a:role/aad/r,arn:aws:iam::a:saml-provider/AAD", isEnabled,
\* allowedMemberTypes ["User"], origin "Application", an id no fetched role
\* has, and as displayName the name given on the command line, or "r/a" when
\* none (None or the empty string) was given; a role of the same displayName
\* in the fetched collection does not prevent the append.
C6_NewAppendsOneRole ==
    \A i \in Invocations :
        (opts[i].cmd = "new" /\ GotApplication(i)) =>
            LET r == opts[i].aws_role_name
                a == opts[i].account_id
                n == Len(Fetched(i))
            IN  /\ Len(Writes(i)) <= 1
                /\ pc[i] \in {"patch", "done", "error"}
                /\ pc[i] = "done" => Len(Writes(i)) = 1 /\ provider = Writes(i)[1].roles
                /\ \A w \in 1..Len(Writes(i)) :
                      LET sent == Writes(i)[w].roles
                      IN  /\ Len(sent) = n + 1
                          /\ \A k \in 1..n : sent[k] = Fetched(i)[k]
                          /\ sent[n + 1].description = r \o <<"@">> \o a
                          /\ sent[n + 1].value =
                                <<"arn:aws:iam::">> \o a \o <<":role/aad/">> \o r \o <<",">>
                                \o <<"arn:aws:iam::">> \o a \o <<":saml-provider/AAD">>
                          /\ sent[n + 1].isEnabled = TRUE
                          /\ sent[n + 1].allowedMemberTypes = <<"User">>
                          /\ sent[n + 1].origin = "Application"
                          /\ sent[n + 1].id \notin Ids(Fetched(i))
                          /\ sent[n + 1].displayName =
                                IF opts[i].app_role_name \in {None, <<>>}
                                THEN r \o <<"/">> \o a
                                ELSE opts[i].app_role_name
                          /\ DOMAIN sent[n + 1] = {"allowedMemberTypes", "description", "displayName",
                                                   "id", "isEnabled", "origin", "value"}

\* new has completed although the fetched collection already held a role of
\* the displayName it was given
C6_Witness ==
    \E i \in Invocations :
        /\ opts[i].cmd = "new" /\ pc[i] = "done"
        /\ opts[i].app_role_name = <<"x">>
        /\ <<"x">> \in Names(Fetched(i))
        /\ Len(provider) = Len(Fetched(i)) + 1

\* C9: info for a name whose role's description has exactly one '@' issues no
\* write, fails only when a provider call fails, and when the IAM listing
\* succeeds reports the arn of the first role of the account under path prefix
\* /aad whose name is the decoded role name, or "Not Found" when there is none.
UnderAad(iam, name) ==
    {k \in 1..Len(iam) : iam[k].name = name /\ Len(iam[k].path) >= 1 /\ iam[k].path[1] = "/aad"}

C9_InfoReportsArnOrNotFound ==
    \A i \in Invocations :
        (opts[i].cmd = "info" /\ HasTarget(i) /\ AtCount(Target(i).description) = 1) =>
            LET r == BeforeAt(Target(i).description)
                a == AfterAt(Target(i).description)
            IN  /\ Len(Writes(i)) = 0
                /\ provider = Fetched(i)
                /\ err[i] \in {NoError, "ProviderRequestFailure"}
                /\ pc[i] = "error" => ~calls[i][Len(calls[i])].ok
                /\ (Len(calls[i]) >= 3 /\ calls[i][3].ok) =>
                      LET iam == calls[i][3].roles
                          hits == UnderAad(iam, r)
                      IN  /\ pc[i] = "done"
                          /\ Len(out[i]) = 1
                          /\ out[i][1].aws_role_name = r /\ out[i][1].aws_account_id = a
                          /\ out[i][1].id = Target(i).id
                          /\ hits = {} => out[i][1].role_arn = <<"Not Found">>
                          /\ hits # {} =>
                                out[i][1].role_arn =
                                    iam[CHOOSE k \in hits : \A j \in hits : k <= j].arn

\* info has reported Not Found although the account holds a role of that name
\* outside /aad
C9_Witness ==
    \E i \in Invocations :
        /\ opts[i].cmd = "info" /\ pc[i] = "done"
        /\ out[i][1].role_arn = <<"Not Found">>
        /\ \E k \in 1..Len(calls[i][3].roles) :
              calls[i][3].roles[k].name = out[i][1].aws_role_name

----------------------------------------------------------------------------
\* The lookup by AWS role name

\* C7: find_app_roles_by_aws_name returns, for every role list and name,
\* exactly the roles whose description decodes to that AWS role name, in list
\* order; no description makes the scan fail.
C7_FindReturnsExactlyTheMatches ==
    found.ran =>
        /\ ~found.raised
        /\ found.found = SelectSeq(app_roles, LAMBDA r :
                            AtCount(r.description) >= 1 /\ BeforeAt(r.description) = aws_name)

\* The same where no description has a second '@'
FindReturnsMatchesWhenAtMostOneAt ==
    (found.ran /\ \A k \in 1..Len(app_roles) : AtCount(app_roles[k].description) <= 1) =>
        /\ ~found.raised
        /\ found.found = SelectSeq(app_roles, LAMBDA r :
                            AtCount(r.description) = 1 /\ BeforeAt(r.description) = aws_name)

\* C8: the role named msiam_access is in no result of an AWS-related scan:
\* the loop of list_app_roles logs no record for it and
\* find_app_roles_by_aws_name does not return it, whatever its description.
C8_MsiamAccessExcluded ==
    /\ \A k \in 1..Len(ListLoop(app_roles, 1).records) :
          ListLoop(app_roles, 1).records[k].displayName # msiam_access
    /\ found.ran => \A k \in 1..Len(found.found) : found.found[k].displayName # msiam_access

\* The part of C8 that is about list_app_roles
ListExcludesMsiamAccess ==
    \A i \in Invocations : \A k \in 1..Len(out[i]) :
        opts[i].cmd = "ls" => out[i][k].displayName # msiam_access

----------------------------------------------------------------------------
\* Two invocations against the same application

AllDone == \A i \in Invocations : pc[i] = "done"

\* The collection the n-th write of invocation i carries when it is the fetched
\* collection with the invocation's own change and nothing else
OwnWrite(i, n) ==
    IF opts[i].cmd = "new" THEN [k \in 1..(Len(Fetched(i)) + 1) |->
                                    IF k <= Len(Fetched(i)) THEN Fetched(i)[k] ELSE app_role[i]]
    ELSE IF n = 1 THEN WithAt(Fetched(i), TargetPos(i), [Target(i) EXCEPT !.isEnabled = FALSE])
    ELSE Without(Fetched(i), TargetPos(i))

\* The provider's collection shows what invocation i set out to do
EffectPresent(i) ==
    IF opts[i].cmd = "new" THEN \E k \in 1..Len(provider) : provider[k] = app_role[i]
    ELSE app_role[i].id \notin Ids(provider)

SameTarget ==
    /\ \A i \in Invocations : opts[i].cmd = "rm"
    /\ \A i, j \in Invocations : app_role[i].id = app_role[j].id

LastWriteWins ==
    /\ \A i \in Invocations : \A n \in 1..Len(Writes(i)) : Writes(i)[n].roles = OwnWrite(i, n)
    /\ lastWriter # 0 =>
          LET ok == SelectSeq(Writes(lastWriter), LAMBDA c : c.ok)
          IN  provider = ok[Len(ok)].roles

\* C10 as stated: every write replaces the provider's collection by the
\* writer's fetched collection with only its own change, and the final
\* collection shows the effect of both invocations only when they ran strictly
\* one after the other.
C10_LastWriterWins_AsStated ==
    /\ LastWriteWins
    /\ (AllDone /\ \A i \in Invocations : EffectPresent(i)) => ~overlapped

\* C10 amended: ... only when they ran strictly one after the other, or when
\* both are deletes of the same role.
C10_LastWriterWins ==
    /\ LastWriteWins
    /\ (AllDone /\ \A i \in Invocations : EffectPresent(i)) => (~overlapped \/ SameTarget)

\* both invocations completed, their calls interleaved, and the final
\* collection has lost what one of them wrote
C10_Witness ==
    /\ AllDone /\ overlapped /\ ~SameTarget
    /\ \E i \in Invocations : opts[i].cmd = "new" /\ ~EffectPresent(i)

====
